---- MODULE Spec2Model ----
(***************************************************************************)
(* The block synchronization manager (package sync, SyncManager).  The     *)
(* handlers of the blockHandler loop are modelled as atomic steps on the   *)
(* manager's single-writer state; the chain backend and the peer objects   *)
(* are modelled by the calls the manager makes on them.                    *)
(***************************************************************************)
EXTENDS Integers, Sequences, FiniteSets, TLC

\* ---------------------------------------------------------------- bounds
NumPeers == 2
\* block hashes and transaction hashes the peers talk about
NumHashes == 2
NumTxHashes == 2
\* transaction hashes of a flood: one more than the in-flight maps hold
NumFloodHashes == 3
MaxHeight == 1
\* the longest inv message in steady state and during the block download
MaxInvLen == 2
MaxBurstLen == 3
\* the most blocks a peer delivers while it is registered
MaxCount == 1
\* the most false positives the chain reports for one block or transaction
MaxFps == 0
\* the most goroutines of updateBloomFilter pending per peer
MaxTasks == 1
\* the longest request queue
MaxQueue == 1
\* msg.MaxInvPerMsg, scaled down so that the maps fill up
MaxInvPerMsg == 2
\* the most bad blocks a peer has sent when the rate is looked at
MaxBad == 1
\* the most false positives of a peer whose filter is being refreshed
MaxFilterFps == 2
\* the callers of Start, of Stop and of the New/Done/Queue functions
NumStarters == 2
NumStoppers == 2
NumSubmitters == 2
\* the callers of SyncPeerID and IsCurrent
NumQueriers == 1
\* cap(sm.msgChan) = cfg.MaxPeers * 3, scaled down
QueueCap == 2

\* ------------------------------------------------------------- constants
maxRequestedBlocks == MaxInvPerMsg
maxRequestedTxns == MaxInvPerMsg
\* 1 / maxBadBlockRate = 1 / maxFalsePositiveRate
InverseMaxRate == 1000

Peers == 1..NumPeers
NoPeer == 0
Hashes == 1..NumHashes
TxHashes == 1..NumTxHashes
FloodHashes == 1..NumFloodHashes
Heights == 0..MaxHeight

InvTypeTx == "Tx"
InvTypeBlock == "Block"
InvTypeFilteredBlock == "FilteredBlock"
InvTypeError == "Error"
InvTypes == {InvTypeError, InvTypeTx, InvTypeBlock, InvTypeFilteredBlock}

\* The vectors peers advertise; the hash of a vector that is skipped for its
\* type is never read.
BlockVects == [Type : {InvTypeBlock}, Hash : Hashes]
TxVects == [Type : {InvTypeTx}, Hash : TxHashes]
OtherVects == [Type : {InvTypeFilteredBlock, InvTypeError}, Hash : {1}]

\* The lists of at most n vectors of the set vects
ListsOf(vects, n) == UNION {[1..k -> vects] : k \in 0..n}

SFNodeNetwork == "SFNodeNetwork"
SFNodeBloom == "SFNodeBloom"
ServiceFlags == SUBSET {SFNodeNetwork, SFNodeBloom}

OrphanBlockError == "OrphanBlockError"
OtherError == "OtherError"
NoError == "nil"

VARIABLES
    peerStates,        \* sm.peerStates: registered peer -> peerSyncState
    requestedTxns,     \* sm.requestedTxns
    requestedBlocks,   \* sm.requestedBlocks
    txMemPool,         \* sm.txMemPool
    syncPeer,          \* sm.syncPeer (NoPeer = nil)
    shutdown,          \* sm.shutdown
    height,            \* peer.Height() of every peer object
    bestHeight,        \* cfg.Chain.BestHeight()
    chainBlocks,       \* blocks cfg.Chain.HaveBlock() reports as known
    filterTasks,       \* pending goroutines of updateBloomFilter, per peer
    scenario,          \* what the peers and the chain of this run do
    started,           \* sm.started
    quit,              \* sm.quit is closed
    wg,                \* the counter of sm.wg
    msgChan,           \* sm.msgChan
    worker,            \* the blockHandler goroutine: where it is
    loops,             \* how many blockHandler goroutines were launched
    starter,           \* every caller of Start: where it is
    stopper,           \* every caller of Stop: where it is
    submitter,         \* every caller of NewPeer, DonePeer, Queue*: where it is
    replies,           \* how often each caller's done channel was signalled
    handled,           \* the callers whose message blockHandler has handled
    querier            \* every caller of SyncPeerID, IsCurrent: where it is

manager == <<peerStates, requestedTxns, requestedBlocks, txMemPool, syncPeer,
             height, bestHeight, chainBlocks, filterTasks>>

lifecycle == <<started, quit, wg, msgChan, worker, loops, starter, stopper,
               submitter, replies, handled, querier>>

vars == <<peerStates, requestedTxns, requestedBlocks, txMemPool, syncPeer,
          shutdown, height, bestHeight, chainBlocks, filterTasks, scenario,
          started, quit, wg, msgChan, worker, loops, starter, stopper,
          submitter, replies, handled, querier>>

Starters == 1..NumStarters
Stoppers == 1..NumStoppers
Submitters == 1..NumSubmitters
Queriers == 1..NumQueriers

\* cfg.MinPeersForSync of the run
MinPeersForSync == IF scenario \in {"burst", "rate", "loop"} THEN 1 ELSE 2

\* ------------------------------------------------------------ peer state
newPeerSyncState(isCandidate) ==
    [syncCandidate |-> isCandidate,
     requestQueue |-> <<>>,
     requestedTxns |-> {},
     requestedBlocks |-> {},
     receivedBlocks |-> 0,
     badBlocks |-> 0,
     receivedTxs |-> 0,
     falsePositives |-> 0]

\* float64(a)/float64(b) > 0.001 : +Inf when b = 0 < a, NaN when a = b = 0
rateExceeds(a, b) ==
    IF b = 0 THEN a > 0 ELSE a * 1000 > b

\* (mutant) a rate of exactly maxBadBlockRate is already too much
badBlockRateExceeds_atLeast(st) == st.badBlocks * 1000 >= st.receivedBlocks

badBlockRateExceeds(st) == rateExceeds(st.badBlocks, st.receivedBlocks)

falsePosRateExceeds(st) == rateExceeds(st.falsePositives, st.receivedTxs)

\* The state a handler works on: the manager's fields, the collaborators it
\* reads, and what it has done so far: the peers it disconnected, the
\* messages it sent, the chain commit it made and the return it took.
Cur ==
    [peerStates |-> peerStates,
     requestedTxns |-> requestedTxns,
     requestedBlocks |-> requestedBlocks,
     txMemPool |-> txMemPool,
     syncPeer |-> syncPeer,
     height |-> height,
     bestHeight |-> bestHeight,
     chainBlocks |-> chainBlocks,
     filterTasks |-> filterTasks,
     disconnect |-> {},
     getblocks |-> <<>>,
     getdata |-> <<>>,
     filterload |-> <<>>,
     commit |-> "none",
     path |-> "none"]

Registered(s) == DOMAIN s.peerStates

setPeerState(s, p, st) ==
    [s EXCEPT !.peerStates =
        [q \in DOMAIN s.peerStates \cup {p} |->
            IF q = p THEN st ELSE s.peerStates[q]]]

\* ---------------------------------------------------------------- current
current(s) ==
    IF s.syncPeer = NoPeer THEN TRUE
    ELSE IF s.bestHeight < s.height[s.syncPeer] THEN FALSE
    ELSE TRUE

\* --------------------------------------------------------------- syncWith
\* (mutant) the locator is sent but the sync peer is not recorded
syncWith_keepPeer(s, p) ==
    [s EXCEPT !.requestedBlocks = {},
              !.getblocks = Append(@, p)]

syncWith(s, p) ==
    [s EXCEPT !.requestedBlocks = {},
              !.getblocks = Append(@, p),
              !.syncPeer = p]

isSyncCandidate(services) ==
    SFNodeNetwork \in services /\ SFNodeBloom \in services

getSyncCandidates(s) ==
    {p \in Registered(s) : s.peerStates[p].syncCandidate}

\* -------------------------------------------------------------- startSync
\* The result depends on the iteration order of the map: every candidate
\* that is not behind the chain and has the greatest height can be chosen.
\* (mutant) the selector does not wait for MinPeersForSync candidates
tooFewCandidates_never(s) == FALSE

\* "Return if sync candidates less then MinPeersForSync."
tooFewCandidates(s) == Cardinality(getSyncCandidates(s)) < MinPeersForSync

\* (mutant) the first available candidate is kept, whatever its height
highestCandidates_first(s, avail) == avail

\* "Pick the first available candidate." / "Pick the highest available
\* candidate.": what bestPeer can be after the loop
highestCandidates(s, avail) ==
    {p \in avail : \A q \in avail : s.height[q] <= s.height[p]}

startSync(s) ==
    IF tooFewCandidates(s) THEN {s}
    ELSE IF s.syncPeer # NoPeer THEN {s}
    ELSE
        LET cands == getSyncCandidates(s)
            behind == {p \in cands : s.height[p] < s.bestHeight}
            avail == cands \ behind
            marked == [s EXCEPT !.peerStates =
                         [q \in DOMAIN s.peerStates |->
                            IF q \in behind
                            THEN [s.peerStates[q] EXCEPT !.syncCandidate = FALSE]
                            ELSE s.peerStates[q]]]
            best == highestCandidates(s, avail)
        IN  IF avail = {} THEN {marked}
            ELSE {syncWith(marked, p) : p \in best}

\* --------------------------------------------------------------- limitMap
\* (mutant) limitMap that never evicts
limitMap_noEvict(m, limit) == {m}

\* Go's range starts at an unspecified entry: any entry can be the evicted one.
limitMap(m, limit) ==
    IF Cardinality(m) + 1 > limit /\ m # {}
    THEN {m \ {x} : x \in m}
    ELSE {m}

\* --------------------------------------------------------- pushGetDataMsg
\* The end of pushGetDataMsg: store the rest of the queue, send the message.
queueGetData(s, p, queue, gdmsg) ==
    LET s1 == [s EXCEPT !.peerStates[p].requestQueue = queue]
    IN  IF Len(gdmsg) > 0
        THEN [s1 EXCEPT !.getdata = Append(@, [peer |-> p, InvList |-> gdmsg])]
        ELSE s1

\* One iteration of the loop on the vector iv: the set of possible
\* <<state, numRequested, gdmsg>> after it.
requestInv(s, p, iv, numRequested, gdmsg) ==
    IF iv.Type = InvTypeFilteredBlock /\ iv.Hash \notin s.requestedBlocks
    THEN {<<[s EXCEPT !.requestedBlocks = m,
                      !.peerStates[p].requestedBlocks = @ \cup {iv.Hash}],
            numRequested + 1, Append(gdmsg, iv)>> :
            m \in limitMap(s.requestedBlocks \cup {iv.Hash}, maxRequestedBlocks)}
    ELSE IF iv.Type = InvTypeTx /\ iv.Hash \notin s.requestedTxns
    THEN {<<[s EXCEPT !.requestedTxns = m,
                      !.peerStates[p].requestedTxns = @ \cup {iv.Hash}],
            numRequested + 1, Append(gdmsg, iv)>> :
            m \in limitMap(s.requestedTxns \cup {iv.Hash}, maxRequestedTxns)}
    ELSE {<<s, numRequested, gdmsg>>}

RECURSIVE pumpLoop(_, _, _, _, _)
pumpLoop(s, p, queue, numRequested, gdmsg) ==
    IF Len(queue) = 0 THEN {queueGetData(s, p, queue, gdmsg)}
    ELSE UNION {IF n[2] >= MaxInvPerMsg
                THEN {queueGetData(n[1], p, Tail(queue), n[3])}
                ELSE pumpLoop(n[1], p, Tail(queue), n[2], n[3]) :
                n \in requestInv(s, p, Head(queue), numRequested, gdmsg)}

pushGetDataMsg(s, p) ==
    pumpLoop(s, p, s.peerStates[p].requestQueue, 0, <<>>)

\* ---------------------------------------------------------- haveInventory
haveInventory(s, iv) ==
    IF iv.Type \in {InvTypeBlock, InvTypeFilteredBlock} THEN iv.Hash \in s.chainBlocks
    ELSE IF iv.Type = InvTypeTx THEN iv.Hash \in s.txMemPool
    ELSE TRUE

\* ----------------------------------------------------------- handleInvMsg
\* The switch on iv.Type: a Block vector is rewritten, a Tx vector is kept
\* and every other vector is skipped.
invSupported(iv) == iv.Type \in {InvTypeBlock, InvTypeTx}

\* (mutant) a Block vector is queued as it was advertised
invRewrite_keep(iv) == iv

invRewrite(iv) ==
    IF iv.Type = InvTypeBlock THEN [iv EXCEPT !.Type = InvTypeFilteredBlock] ELSE iv

\* What the loop over the advertised vectors appends to the request queue.
invWanted(s, invList) ==
    LET supported == SelectSeq(invList, invSupported)
        rewritten == [i \in 1..Len(supported) |-> invRewrite(supported[i])]
    IN  SelectSeq(rewritten, LAMBDA iv : ~haveInventory(s, iv))

\* "Ignore invs from peers that aren't the sync if we are not current."
ignoreInv(s, p) == p # s.syncPeer /\ ~current(s)

handleInvMsg(s, p, invList) ==
    IF p \notin Registered(s) THEN {[s EXCEPT !.path = "unknown"]}
    ELSE IF ignoreInv(s, p) THEN {[s EXCEPT !.path = "gated"]}
    ELSE pushGetDataMsg(
            [s EXCEPT !.peerStates[p].requestQueue = @ \o invWanted(s, invList),
                      !.path = "pump"], p)

\* ------------------------------------------------------- handleNewPeerMsg
handleNewPeerMsg(s, p, services) ==
    IF shutdown # 0 THEN {[s EXCEPT !.path = "shutdown"]}
    ELSE LET cand == isSyncCandidate(services)
             s1 == setPeerState([s EXCEPT !.path = "registered"], p,
                                newPeerSyncState(cand))
         IN  IF cand /\ s1.syncPeer = NoPeer THEN startSync(s1) ELSE {s1}

\* ------------------------------------------------------ handleDonePeerMsg
\* The peer object is not used after the peer is done, so the height it
\* reported is forgotten with it (height[p] = 0, as for a peer not yet seen).
\* (mutant) the quitting peer is never taken for the sync peer
isSyncPeer_never(s, p) == FALSE

\* "if the quitting peer is the sync peer"
isSyncPeer(s, p) == s.syncPeer = p

\* "Remove the peer from the list of candidate peers" and its requests from
\* the manager's maps
removePeer(s, p) ==
    LET state == s.peerStates[p]
    IN  [s EXCEPT
           !.peerStates = [q \in DOMAIN s.peerStates \ {p} |-> s.peerStates[q]],
           !.requestedTxns = @ \ state.requestedTxns,
           !.requestedBlocks = @ \ state.requestedBlocks,
           !.height[p] = 0,
           !.path = "removed"]

\* (mutant) handleDonePeerMsg that leaves the peer's transactions in the
\* manager's map
handleDonePeerMsg_keepTxns(s, p) ==
    IF p \notin Registered(s) THEN {[s EXCEPT !.path = "unknown"]}
    ELSE LET state == s.peerStates[p]
             s1 == [s EXCEPT
                      !.peerStates = [q \in DOMAIN s.peerStates \ {p} |-> s.peerStates[q]],
                      !.requestedBlocks = @ \ state.requestedBlocks,
                      !.height[p] = 0,
                      !.path = "removed"]
         IN  IF s1.syncPeer = p
             THEN startSync([s1 EXCEPT !.syncPeer = NoPeer])
             ELSE {s1}

handleDonePeerMsg(s, p) ==
    IF p \notin Registered(s) THEN {[s EXCEPT !.path = "unknown"]}
    ELSE LET s1 == removePeer(s, p)
         IN  IF isSyncPeer(s1, p)
             THEN startSync([s1 EXCEPT !.syncPeer = NoPeer])
             ELSE {s1}

\* ------------------------------------------------------ updateBloomFilter
\* The filter-load message is queued on the peer and a goroutine waits for
\* its done channel or for the peer's quit signal.
updateBloomFilter(s, p) ==
    [s EXCEPT !.filterload = Append(@, p),
              !.filterTasks[p] = @ + 1]

\* The goroutine of updateBloomFilter, "case <-doneChan": it looks the peer
\* up in sm.peerStates and zeroes its two counters.
filterLoaded(s, p) ==
    LET s1 == [s EXCEPT !.filterTasks[p] = @ - 1]
    IN  IF p \in Registered(s1)
        THEN [s1 EXCEPT !.peerStates[p].receivedTxs = 0,
                        !.peerStates[p].falsePositives = 0]
        ELSE s1

\* The goroutine of updateBloomFilter, "case <-p.Quit()"
filterQuit(s, p) == [s EXCEPT !.filterTasks[p] = @ - 1]

\* ------------------------------------------------------------ handleTxMsg
\* fp is the first result of cfg.Chain.CommitTx; its error is only logged.
handleTxMsg(s, p, txHash, fp) ==
    IF p \notin Registered(s) THEN [s EXCEPT !.path = "unknown"]
    ELSE IF txHash \notin s.peerStates[p].requestedTxns
    THEN [s EXCEPT !.disconnect = @ \cup {p}, !.path = "unrequested"]
    ELSE LET s1 == [s EXCEPT !.txMemPool = @ \cup {txHash},
                             !.peerStates[p].requestedTxns = @ \ {txHash},
                             !.requestedTxns = @ \ {txHash},
                             !.commit = "tx",
                             !.path = "committed"]
             s2 == [s1 EXCEPT !.peerStates[p].falsePositives = @ + 1]
         IN  IF ~fp THEN s1
             ELSE IF falsePosRateExceeds(s2.peerStates[p])
                  THEN updateBloomFilter(s2, p)
                  ELSE s2

\* ------------------------------------------------------------ CommitBlock
\* What cfg.Chain.CommitBlock can return: an error (OrphanBlockError or
\* another one), a duplicate block, or a new block with its height.
CommitResults(heights) ==
    {[err |-> e, newBlock |-> FALSE, reorg |-> FALSE, newHeight |-> 0, fps |-> 0] :
        e \in {OrphanBlockError, OtherError}}
    \cup [err : {NoError}, newBlock : {FALSE}, reorg : {FALSE}, newHeight : {0},
          fps : 0..MaxFps]
    \cup [err : {NoError}, newBlock : {TRUE}, reorg : BOOLEAN, newHeight : heights,
          fps : 0..MaxFps]

\* What cfg.Chain.CommitTx can report as "false positive".
CommitTxResults == {FALSE} \cup {MaxFps > 0}

\* The chain after CommitBlock returned res for the block blockHash.
CommitBlock(s, blockHash, res) ==
    [s EXCEPT !.commit = "block",
              !.chainBlocks = IF res.err = NoError THEN @ \cup {blockHash} ELSE @,
              !.bestHeight = IF res.err = NoError /\ res.newBlock
                             THEN res.newHeight ELSE @]

\* --------------------------------------------------------- handleBlockMsg
\* "Clear request state for new sync" (also the orphan-while-current branch)
clearRequestState(s, p) ==
    [s EXCEPT !.peerStates[p].requestQueue = <<>>,
              !.peerStates[p].requestedBlocks = {},
              !.requestedBlocks = {}]

\* (mutant) the sync peer is dropped once the manager is current
nowCurrent_clearSyncPeer(s, p, newHeight) ==
    [s EXCEPT !.height[p] = newHeight, !.syncPeer = NoPeer, !.path = "current"]

\* "If we're current now, nothing more to do.": peer.UpdateHeight(newHeight)
nowCurrent(s, p, newHeight) ==
    [s EXCEPT !.height[p] = newHeight, !.path = "current"]

\* (mutant) the mempool survives a new block
clearMempool_keep(s) == s

\* "Clear mempool"
clearMempool(s) == [s EXCEPT !.txMemPool = {}]

\* The success path (err == nil) after CommitBlock
blockAccepted(s, p, res) ==
    LET s1 == [s EXCEPT !.peerStates[p].falsePositives = @ + res.fps]
        s2 == IF res.reorg /\ current(s1) THEN clearRequestState(s1, p) ELSE s1
        s3 == clearMempool(s2)
    IN  IF ~res.newBlock THEN {[s1 EXCEPT !.path = "duplicate"]}
        ELSE IF current(s3) THEN {nowCurrent(s3, p, res.newHeight)}
        ELSE IF Len(s3.peerStates[p].requestQueue) = 0
        THEN {[s3 EXCEPT !.getblocks = Append(@, p), !.path = "getblocks"]}
        ELSE pushGetDataMsg([s3 EXCEPT !.path = "getdata"], p)

\* (mutant) a block from an unknown peer is only logged
unknownBlockPeer_warnOnly(s, p) == [s EXCEPT !.path = "unknown"]

\* "Received block message from unknown peer"
unknownBlockPeer(s, p) ==
    [s EXCEPT !.disconnect = @ \cup {p}, !.path = "unknown"]

\* (mutant) a block that was not requested is ignored
unrequestedBlock_ignore(s, p) == [s EXCEPT !.path = "unrequested"]

\* "If we didn't ask for this block then the peer is misbehaving."
unrequestedBlock(s, p) ==
    [s EXCEPT !.disconnect = @ \cup {p}, !.path = "unrequested"]

\* (mutant) blocks are processed whoever sends them
ignoreBlock_never(s, p) == FALSE

\* "We don't need to process blocks when we're syncing."
ignoreBlock(s, p) == p # s.syncPeer /\ ~current(s)

handleBlockMsg(s, p, blockHash, res) ==
    IF ignoreBlock(s, p) THEN {[s EXCEPT !.path = "gated"]}
    ELSE IF p \notin Registered(s) THEN {unknownBlockPeer(s, p)}
    ELSE IF blockHash \notin s.peerStates[p].requestedBlocks
    THEN {unrequestedBlock(s, p)}
    ELSE
        LET s1 == [s EXCEPT !.peerStates[p].receivedBlocks = @ + 1,
                            !.peerStates[p].requestedBlocks = @ \ {blockHash},
                            !.requestedBlocks = @ \ {blockHash}]
            s2 == CommitBlock(s1, blockHash, res)
            bad == [s2 EXCEPT !.peerStates[p].badBlocks = @ + 1]
        IN  IF res.err = OrphanBlockError /\ current(s2)
            THEN {syncWith(clearRequestState([s2 EXCEPT !.path = "orphanCurrent"], p), p)}
            ELSE IF res.err = OrphanBlockError /\ ~current(s2)
            THEN IF badBlockRateExceeds(bad.peerStates[p])
                 THEN {[bad EXCEPT !.disconnect = @ \cup {p}, !.path = "badRate"]}
                 ELSE {[bad EXCEPT !.path = "orphanSyncing"]}
            ELSE IF res.err # NoError THEN {[s2 EXCEPT !.path = "error"]}
            ELSE blockAccepted(s2, p, res)

\* ------------------------------------------------------------ the machine
\* The result r of a handler becomes the manager's state.
Install(r) ==
    /\ peerStates' = r.peerStates
    /\ requestedTxns' = r.requestedTxns
    /\ requestedBlocks' = r.requestedBlocks
    /\ txMemPool' = r.txMemPool
    /\ syncPeer' = r.syncPeer
    /\ height' = r.height
    /\ bestHeight' = r.bestHeight
    /\ chainBlocks' = r.chainBlocks
    /\ filterTasks' = r.filterTasks

\* The handler returned, in a run that looks at the events of a started
\* manager only.
Return(r) ==
    /\ Install(r)
    /\ UNCHANGED <<shutdown, scenario>>
    /\ UNCHANGED lifecycle

\* Start() has returned, nobody is in Stop or in a Queue function.
LoopRunning ==
    /\ started = 1
    /\ quit = FALSE
    /\ wg = 1
    /\ msgChan = <<>>
    /\ worker = "select"
    /\ loops = 1
    /\ starter = [c \in Starters |-> IF c = 1 THEN "returned" ELSE "idle"]
    /\ stopper = [c \in Stoppers |-> [pc |-> "idle", afterStart |-> FALSE]]
    /\ submitter = [c \in Submitters |-> [pc |-> "idle", kind |-> "none"]]
    /\ replies = [c \in Submitters |-> 0]
    /\ handled = {}
    /\ querier = [c \in Queriers |-> [pc |-> "idle", kind |-> "none", value |-> "none"]]

\* The numbers of received blocks at which the bad block rate is looked at:
\* few blocks, and around one and two bad blocks in a thousand.
RateReceived ==
    {0, 10, InverseMaxRate - 2, InverseMaxRate - 1, InverseMaxRate,
     2 * InverseMaxRate - 2, 2 * InverseMaxRate - 1}

\* The model stops counting at MaxCount and queueing at MaxQueue.
WithinBounds(r) ==
    /\ \A p \in Registered(r) :
         /\ CASE scenario = "rate" ->
                   /\ r.peerStates[p].receivedBlocks
                          \in UNION {{n, n + 1, n + 2} : n \in RateReceived}
                   /\ r.peerStates[p].badBlocks <= MaxBad + 1
              [] scenario = "filter" ->
                   /\ r.peerStates[p].receivedBlocks <= MaxCount
                   /\ r.peerStates[p].falsePositives <= MaxFilterFps
              [] OTHER ->
                   /\ r.peerStates[p].receivedBlocks <= MaxCount
                   /\ r.peerStates[p].falsePositives <= MaxCount
         /\ Len(r.peerStates[p].requestQueue) <= MaxQueue
    /\ \A p \in Peers : r.filterTasks[p] <= MaxTasks

Scenarios == {"steady", "sync", "burst", "flood"}

\* New(): the chain is at height 0
Init ==
    /\ peerStates = <<>>
    /\ requestedTxns = {}
    /\ requestedBlocks = {}
    /\ txMemPool = {}
    /\ syncPeer = NoPeer
    /\ shutdown = 0
    /\ height = [p \in Peers |-> 0]
    /\ bestHeight = 0
    /\ chainBlocks = {}
    /\ filterTasks = [p \in Peers |-> 0]
    /\ scenario \in Scenarios
    /\ LoopRunning

\* case *newPeerMsg: a peer object that is not registered is a new
\* connection, with the height of its handshake.
NewPeer(p, services, h) ==
    /\ p \in Registered(Cur) => h = height[p]
    /\ \E r \in handleNewPeerMsg([Cur EXCEPT !.height[p] = h], p, services) :
         WithinBounds(r) /\ Return(r)

\* case *donePeerMsg
DonePeer(p) ==
    \E r \in handleDonePeerMsg(Cur, p) : Return(r)

\* case *invMsg
Inv(p, invList) ==
    \E r \in handleInvMsg(Cur, p, invList) : WithinBounds(r) /\ Return(r)

\* case *blockMsg
Block(p, blockHash, res) ==
    \E r \in handleBlockMsg(Cur, p, blockHash, res) : WithinBounds(r) /\ Return(r)

\* case *txMsg
Tx(p, txHash, fp) ==
    LET r == handleTxMsg(Cur, p, txHash, fp)
    IN  WithinBounds(r) /\ Return(r)

\* Four kinds of runs.
\* "steady": every peer and the chain are at height 0 ("both are at 0 such as
\*   during regression test"); peers advertise transactions, a block and
\*   unsupported vectors.
\* "sync": block download; peers are ahead of the chain and advertise blocks.
\* "burst": block download from full nodes only, with inv messages longer
\*   than a getdata message, and a chain that accepts every block.
\* "flood": peers without the bloom service advertise more transactions than
\*   the in-flight map holds.
\* "loop": one peer, one block and one transaction, while the manager is
\*   started and stopped.
\* "rate": the sync peer has delivered many blocks and goes on during the
\*   block download.
\* "filter": the chain flags transactions and blocks as false positives.
ScnInvLists ==
    CASE scenario = "steady" ->
            ListsOf([Type : {InvTypeBlock}, Hash : {1}] \cup TxVects \cup OtherVects,
                    MaxInvLen)
      [] scenario = "sync" -> ListsOf(BlockVects, MaxInvLen)
      [] scenario = "burst" -> ListsOf(BlockVects, MaxBurstLen)
      [] scenario = "flood" ->
            ListsOf([Type : {InvTypeTx}, Hash : FloodHashes], MaxInvLen)
      [] scenario = "rate" ->
            ListsOf([Type : {InvTypeBlock}, Hash : {1}] \cup
                    [Type : {InvTypeTx}, Hash : {1}], MaxInvLen)
      [] scenario = "filter" ->
            ListsOf([Type : {InvTypeBlock}, Hash : {1}] \cup TxVects, MaxInvLen)
      [] scenario = "loop" ->
            {<<[Type |-> InvTypeBlock, Hash |-> 1], [Type |-> InvTypeTx, Hash |-> 1]>>}

ScnHeights ==
    IF scenario \in {"steady", "flood", "filter", "loop"} THEN {0} ELSE Heights

ScnServices ==
    CASE scenario \in {"burst", "rate", "loop"} -> {{SFNodeNetwork, SFNodeBloom}}
      [] scenario \in {"flood", "filter"} -> {{SFNodeNetwork}}
      [] OTHER -> ServiceFlags

ScnTxHashes == IF scenario = "flood" THEN FloodHashes ELSE TxHashes

ScnResults ==
    CASE scenario = "burst" -> {res \in CommitResults(ScnHeights) : res.newBlock}
      [] scenario = "filter" ->
            {[res EXCEPT !.fps = n] :
                res \in {x \in CommitResults(ScnHeights) : x.err = NoError},
                n \in 0..1}
      [] scenario = "loop" ->
            {res \in CommitResults(ScnHeights) : res.err # OtherError /\ ~res.reorg}
      [] OTHER -> CommitResults(ScnHeights)

ScnTxResults == IF scenario = "filter" THEN BOOLEAN ELSE CommitTxResults

\* The events of blockHandler
Next ==
    \/ \E p \in Peers, services \in ScnServices, h \in ScnHeights :
         NewPeer(p, services, h)
    \/ \E p \in Peers : DonePeer(p)
    \/ \E p \in Peers, invList \in ScnInvLists : Inv(p, invList)
    \/ \E p \in Peers, blockHash \in Hashes, res \in ScnResults :
         Block(p, blockHash, res)
    \/ \E p \in Peers, txHash \in ScnTxHashes, fp \in ScnTxResults :
         Tx(p, txHash, fp)

Spec == Init /\ [][Next]_vars

\* ------------------------------------------------- the filter refresher
\* The goroutine reads sm.peerStates and writes the peer's counters without
\* any synchronisation with blockHandler.  If its done channel fires while
\* blockHandler is in handleTxMsg for a false positive of the same peer, the
\* outcome is that of one of the two orders, or one the race produces:
\* falsePositives++ read the counter before the goroutine zeroed it and wrote
\* it back after (the reset of falsePositives is lost), or the goroutine
\* zeroed the counters after falsePositives++ and before falsePosRate() read
\* them (0/0 is not above the rate: no refresh).
txRacingFilterLoaded(s, p, txHash) ==
    LET w == handleTxMsg(s, p, txHash, TRUE)
        s0 == [s EXCEPT !.txMemPool = @ \cup {txHash},
                        !.peerStates[p].requestedTxns = @ \ {txHash},
                        !.requestedTxns = @ \ {txHash},
                        !.commit = "tx",
                        !.path = "committed"]
    IN  {handleTxMsg(filterLoaded(s, p), p, txHash, TRUE),
         filterLoaded(w, p),
         [w EXCEPT !.peerStates[p].receivedTxs = 0, !.filterTasks[p] = @ - 1],
         filterLoaded(s0, p)}

\* case <-doneChan, between two events of blockHandler
FilterLoaded(p) ==
    /\ filterTasks[p] > 0
    /\ Return(filterLoaded(Cur, p))

\* case <-p.Quit(), between two events of blockHandler
FilterQuit(p) ==
    /\ filterTasks[p] > 0
    /\ Return(filterQuit(Cur, p))

\* case <-doneChan, while blockHandler handles a false positive of the peer
TxDuringFilterLoaded(p, txHash) ==
    /\ filterTasks[p] > 0
    /\ p \in DOMAIN peerStates
    /\ txHash \in peerStates[p].requestedTxns
    /\ \E r \in txRacingFilterLoaded(Cur, p, txHash) :
          WithinBounds(r) /\ Return(r)

InitFilter ==
    /\ peerStates = <<>>
    /\ requestedTxns = {}
    /\ requestedBlocks = {}
    /\ txMemPool = {}
    /\ syncPeer = NoPeer
    /\ shutdown = 0
    /\ height = [p \in Peers |-> 0]
    /\ bestHeight = 0
    /\ chainBlocks = {}
    /\ filterTasks = [p \in Peers |-> 0]
    /\ scenario = "filter"
    /\ LoopRunning

NextFilter ==
    \/ Next
    \/ \E p \in Peers : FilterLoaded(p)
    \/ \E p \in Peers : FilterQuit(p)
    \/ \E p \in Peers, txHash \in ScnTxHashes : TxDuringFilterLoaded(p, txHash)

SpecFilter == InitFilter /\ [][NextFilter]_vars

\* ------------------------------------------------- the bad block rate
\* The block download is under way: the sync peer is ahead of the chain and
\* has delivered blocks before, some of them orphans.
InitRate ==
    /\ \E received \in RateReceived, bad \in 0..MaxBad :
          /\ bad <= received
          /\ peerStates = [p \in {1} |->
                [newPeerSyncState(TRUE) EXCEPT !.receivedBlocks = received,
                                              !.badBlocks = bad]]
    /\ requestedTxns = {}
    /\ requestedBlocks = {}
    /\ txMemPool = {}
    /\ syncPeer = 1
    /\ shutdown = 0
    /\ height = [p \in Peers |-> IF p = 1 THEN MaxHeight ELSE 0]
    /\ bestHeight = 0
    /\ chainBlocks = {}
    /\ filterTasks = [p \in Peers |-> 0]
    /\ scenario = "rate"
    /\ LoopRunning

SpecRate == InitRate /\ [][Next]_vars

\* ------------------------------------------- starting, stopping, queueing
\* Start, Stop and the New/Done/Queue functions run on their callers'
\* goroutines, next to blockHandler; every atomic operation, channel
\* operation and WaitGroup operation is a step of its own.

MsgKinds == {"newPeerMsg", "donePeerMsg", "invMsg", "txMsg", "blockMsg"}

\* QueueTx and QueueBlock take a done channel
HasReply(kind) == kind \in {"txMsg", "blockMsg"}

\* the peer, the block and the transaction of these runs
LoopPeer == 1
LoopHash == 1

\* atomic.LoadInt32(&sm.shutdown) != 0 in the New/Done/Queue functions
shuttingDown_never(sd) == FALSE

shuttingDown(sd) == sd # 0

\* sm.wg.Wait() returns
waitReturns_atOnce(n) == TRUE

waitReturns(n) == n = 0

\* the switch of blockHandler on the type of the message
dispatch(s, kind) ==
    CASE kind = "newPeerMsg" ->
            UNION {handleNewPeerMsg([s EXCEPT !.height[LoopPeer] = h], LoopPeer, services) :
                      services \in ScnServices, h \in ScnHeights}
      [] kind = "donePeerMsg" -> handleDonePeerMsg(s, LoopPeer)
      [] kind = "invMsg" ->
            UNION {handleInvMsg(s, LoopPeer, invList) : invList \in ScnInvLists}
      [] kind = "blockMsg" ->
            UNION {handleBlockMsg(s, LoopPeer, LoopHash, res) : res \in ScnResults}
      [] kind = "txMsg" ->
            {handleTxMsg(s, LoopPeer, LoopHash, fp) : fp \in ScnTxResults}

\* Start: atomic.AddInt32(&sm.started, 1) != 1
StartAdd(c) ==
    /\ starter[c] = "idle"
    /\ started' = started + 1
    /\ starter' = [starter EXCEPT ![c] = IF started + 1 # 1 THEN "skipped" ELSE "add"]
    /\ UNCHANGED <<quit, wg, msgChan, worker, loops, stopper, submitter, replies,
                   handled, shutdown, scenario, querier>>
    /\ UNCHANGED manager

\* Start: sm.wg.Add(1)
StartWgAdd(c) ==
    /\ starter[c] = "add"
    /\ wg' = wg + 1
    /\ starter' = [starter EXCEPT ![c] = "go"]
    /\ UNCHANGED <<started, quit, msgChan, worker, loops, stopper, submitter,
                   replies, handled, shutdown, scenario, querier>>
    /\ UNCHANGED manager

\* Start: go sm.blockHandler()
StartGo(c) ==
    /\ starter[c] = "go"
    /\ worker' = "select"
    /\ loops' = loops + 1
    /\ starter' = [starter EXCEPT ![c] = "returned"]
    /\ UNCHANGED <<started, quit, wg, msgChan, stopper, submitter, replies,
                   handled, shutdown, scenario, querier>>
    /\ UNCHANGED manager

\* Stop: atomic.AddInt32(&sm.shutdown, 1) != 1.  afterStart notes whether
\* the call of Start that launched blockHandler had returned by then.
StopAdd(c) ==
    /\ stopper[c].pc = "idle"
    /\ shutdown' = shutdown + 1
    /\ stopper' = [stopper EXCEPT ![c] =
                      [pc |-> IF shutdown + 1 # 1 THEN "skipped" ELSE "close",
                       afterStart |-> \E d \in Starters : starter[d] = "returned"]]
    /\ UNCHANGED <<started, quit, wg, msgChan, worker, loops, starter, submitter,
                   replies, handled, scenario, querier>>
    /\ UNCHANGED manager

\* Stop: close(sm.quit)
StopClose(c) ==
    /\ stopper[c].pc = "close"
    /\ quit' = TRUE
    /\ stopper' = [stopper EXCEPT ![c].pc = "wait"]
    /\ UNCHANGED <<started, wg, msgChan, worker, loops, starter, submitter,
                   replies, handled, shutdown, scenario, querier>>
    /\ UNCHANGED manager

\* Stop: sm.wg.Wait(); return nil
StopWait(c) ==
    /\ stopper[c].pc = "wait"
    /\ waitReturns(wg)
    /\ stopper' = [stopper EXCEPT ![c].pc = "returned"]
    /\ UNCHANGED <<started, quit, wg, msgChan, worker, loops, starter, submitter,
                   replies, handled, shutdown, scenario, querier>>
    /\ UNCHANGED manager

\* NewPeer, DonePeer, QueueInv, QueueTx, QueueBlock: the load of sm.shutdown,
\* and, if it is set, done <- struct{}{} and the return
Call(c, kind) ==
    /\ submitter[c].pc = "idle"
    /\ IF shuttingDown(shutdown)
         THEN /\ submitter' = [submitter EXCEPT ![c] = [pc |-> "refused", kind |-> kind]]
              /\ replies' = [replies EXCEPT ![c] = IF HasReply(kind) THEN @ + 1 ELSE @]
         ELSE /\ submitter' = [submitter EXCEPT ![c] = [pc |-> "send", kind |-> kind]]
              /\ UNCHANGED replies
    /\ UNCHANGED <<started, quit, wg, msgChan, worker, loops, starter, stopper,
                   handled, shutdown, scenario, querier>>
    /\ UNCHANGED manager

\* sm.msgChan <- msg, which waits while the channel is full
Send(c) ==
    /\ submitter[c].pc = "send"
    /\ Len(msgChan) < QueueCap
    /\ msgChan' = Append(msgChan, [kind |-> submitter[c].kind, sub |-> c])
    /\ submitter' = [submitter EXCEPT ![c].pc = "returned"]
    /\ UNCHANGED <<started, quit, wg, worker, loops, starter, stopper, replies,
                   handled, shutdown, scenario, querier>>
    /\ UNCHANGED manager

\* blockHandler: case m := <-sm.msgChan, the handler, and msg.reply <- struct{}{}
Receive ==
    /\ worker = "select"
    /\ msgChan # <<>>
    /\ Head(msgChan).kind \in MsgKinds
    /\ LET m == Head(msgChan)
       IN  /\ \E r \in dispatch(Cur, m.kind) : Install(r)
           /\ replies' = [replies EXCEPT ![m.sub] = IF HasReply(m.kind) THEN @ + 1 ELSE @]
           /\ handled' = handled \cup {m.sub}
    /\ msgChan' = Tail(msgChan)
    /\ UNCHANGED <<started, quit, wg, worker, loops, starter, stopper, submitter,
                   shutdown, scenario, querier>>

\* blockHandler: case <-sm.quit, break out, sm.wg.Done().  When a message
\* is waiting too, select takes either case.
Quit ==
    /\ worker = "select"
    /\ quit
    /\ worker' = "done"
    /\ wg' = wg - 1
    /\ UNCHANGED <<started, quit, msgChan, loops, starter, stopper, submitter,
                   replies, handled, shutdown, scenario, querier>>
    /\ UNCHANGED manager

\* New(cfg): nothing is started
InitLoop ==
    /\ peerStates = <<>>
    /\ requestedTxns = {}
    /\ requestedBlocks = {}
    /\ txMemPool = {}
    /\ syncPeer = NoPeer
    /\ shutdown = 0
    /\ height = [p \in Peers |-> 0]
    /\ bestHeight = 0
    /\ chainBlocks = {}
    /\ filterTasks = [p \in Peers |-> 0]
    /\ scenario = "loop"
    /\ started = 0
    /\ quit = FALSE
    /\ wg = 0
    /\ msgChan = <<>>
    /\ worker = "none"
    /\ loops = 0
    /\ starter = [c \in Starters |-> "idle"]
    /\ stopper = [c \in Stoppers |-> [pc |-> "idle", afterStart |-> FALSE]]
    /\ submitter = [c \in Submitters |-> [pc |-> "idle", kind |-> "none"]]
    /\ replies = [c \in Submitters |-> 0]
    /\ handled = {}
    /\ querier = [c \in Queriers |-> [pc |-> "idle", kind |-> "none", value |-> "none"]]

NextLoop ==
    \/ \E c \in Starters : StartAdd(c)
    \/ \E c \in Starters : StartWgAdd(c)
    \/ \E c \in Starters : StartGo(c)
    \/ \E c \in Stoppers : StopAdd(c)
    \/ \E c \in Stoppers : StopClose(c)
    \/ \E c \in Stoppers : StopWait(c)
    \/ \E c \in Submitters, kind \in MsgKinds : Call(c, kind)
    \/ \E c \in Submitters : Send(c)
    \/ Receive
    \/ Quit

SpecLoop == InitLoop /\ [][NextLoop]_vars

\* ------------------------------------------------ SyncPeerID, IsCurrent
QueryKinds == {"getSyncPeerMsg", "isCurrentMsg"}

\* case getSyncPeerMsg: the ID of the sync peer, 0 without one
syncPeerID(s) == IF s.syncPeer # NoPeer THEN s.syncPeer ELSE 0

\* what blockHandler sends on msg.reply
queryReply(s, kind) ==
    IF kind = "getSyncPeerMsg" THEN syncPeerID(s) ELSE current(s)

\* SyncPeerID, IsCurrent: reply := make(chan ...)
Ask(c, kind) ==
    /\ querier[c].pc = "idle"
    /\ querier' = [querier EXCEPT ![c] = [pc |-> "send", kind |-> kind, value |-> "none"]]
    /\ UNCHANGED <<started, quit, wg, msgChan, worker, loops, starter, stopper,
                   submitter, replies, handled, shutdown, scenario>>
    /\ UNCHANGED manager

\* SyncPeerID, IsCurrent: sm.msgChan <- msg, whatever sm.shutdown is
AskSend(c) ==
    /\ querier[c].pc = "send"
    /\ Len(msgChan) < QueueCap
    /\ msgChan' = Append(msgChan, [kind |-> querier[c].kind, sub |-> c])
    /\ querier' = [querier EXCEPT ![c].pc = "await"]
    /\ UNCHANGED <<started, quit, wg, worker, loops, starter, stopper, submitter,
                   replies, handled, shutdown, scenario>>
    /\ UNCHANGED manager

\* blockHandler: case getSyncPeerMsg / isCurrentMsg, msg.reply <- value; the
\* caller, which waits in <-reply, takes the value and returns it.
Answer ==
    /\ worker = "select"
    /\ msgChan # <<>>
    /\ Head(msgChan).kind \in QueryKinds
    /\ LET m == Head(msgChan)
       IN  querier' = [querier EXCEPT ![m.sub].pc = "returned",
                                      ![m.sub].value = queryReply(Cur, m.kind)]
    /\ msgChan' = Tail(msgChan)
    /\ UNCHANGED <<started, quit, wg, worker, loops, starter, stopper, submitter,
                   replies, handled, shutdown, scenario>>
    /\ UNCHANGED manager

NextQuery ==
    \/ NextLoop
    \/ \E c \in Queriers, kind \in QueryKinds : Ask(c, kind)
    \/ \E c \in Queriers : AskSend(c)
    \/ Answer

SpecQuery == InitLoop /\ [][NextQuery]_vars

TypeOK ==
    /\ DOMAIN peerStates \subseteq Peers
    /\ requestedTxns \subseteq FloodHashes
    /\ requestedBlocks \subseteq Hashes
    /\ txMemPool \subseteq FloodHashes
    /\ syncPeer \in Peers \cup {NoPeer}

\* ================================================================ claims
\* The properties below speak about what a handler does in a reachable state:
\* they apply the handler to the state (Cur) and to every event the run can
\* deliver, and look at its result.

\* the manager's fields are the same in r and s
SameManager(r, s) ==
    /\ r.peerStates = s.peerStates
    /\ r.requestedTxns = s.requestedTxns
    /\ r.requestedBlocks = s.requestedBlocks
    /\ r.txMemPool = s.txMemPool
    /\ r.syncPeer = s.syncPeer

\* the handler made no call on a peer or on the chain
NoCalls(r) ==
    /\ r.disconnect = {}
    /\ r.getblocks = <<>>
    /\ r.getdata = <<>>
    /\ r.filterload = <<>>
    /\ r.commit = "none"

\* the state in which the next event is handled after a handler ended in r
Settled(r) ==
    [r EXCEPT !.disconnect = {}, !.getblocks = <<>>, !.getdata = <<>>,
              !.filterload = <<>>, !.commit = "none", !.path = "none"]

\* the vectors of the getdata messages sent
Requested(r) ==
    UNION {{m.InvList[i] : i \in 1..Len(m.InvList)} :
           m \in {r.getdata[j] : j \in 1..Len(r.getdata)}}

\* C1: in every reachable state every hash a registered peer has in
\* requestedBlocks (requestedTxns) is in the manager's requestedBlocks
\* (requestedTxns).
C1_PeerRequestsAreGlobal ==
    \A p \in DOMAIN peerStates :
        /\ peerStates[p].requestedBlocks \subseteq requestedBlocks
        /\ peerStates[p].requestedTxns \subseteq requestedTxns

\* C2: in every reachable state no hash is in requestedBlocks of two
\* registered peers, nor in requestedTxns of two registered peers.
C2_NoHashAtTwoPeers ==
    \A p, q \in DOMAIN peerStates :
        p # q =>
            /\ peerStates[p].requestedBlocks \cap peerStates[q].requestedBlocks = {}
            /\ peerStates[p].requestedTxns \cap peerStates[q].requestedTxns = {}

\* C3: in every reachable state requestedBlocks has at most
\* maxRequestedBlocks entries and requestedTxns at most maxRequestedTxns.
C3_GlobalSetsBounded ==
    /\ Cardinality(requestedBlocks) <= maxRequestedBlocks
    /\ Cardinality(requestedTxns) <= maxRequestedTxns

\* A peer was asked for more transactions than the map holds, and the map
\* has evicted.
C3_Witness ==
    \E p \in DOMAIN peerStates :
        /\ Cardinality(peerStates[p].requestedTxns) > maxRequestedTxns
        /\ Cardinality(requestedTxns) < maxRequestedTxns
        /\ requestedTxns # {}

\* C4: when DonePeer(p) is handled for a registered peer p, afterwards p has
\* no entry in peerStates and no hash that p had in requestedBlocks
\* (requestedTxns) is in the manager's requestedBlocks (requestedTxns).
C4_DonePeerReleases ==
    \A p \in DOMAIN peerStates :
        \A r \in handleDonePeerMsg(Cur, p) :
            /\ p \notin Registered(r)
            /\ r.requestedBlocks \cap peerStates[p].requestedBlocks = {}
            /\ r.requestedTxns \cap peerStates[p].requestedTxns = {}

\* A peer with outstanding requests of both kinds, still in the manager's
\* maps, is about to leave and its removal empties them.
C4_Witness ==
    \E p \in DOMAIN peerStates :
        /\ peerStates[p].requestedBlocks \cap requestedBlocks # {}
        /\ peerStates[p].requestedTxns \cap requestedTxns # {}
        /\ \E r \in handleDonePeerMsg(Cur, p) :
             /\ p \notin Registered(r)
             /\ r.requestedBlocks \cup r.requestedTxns = {}

\* the number of sync candidates once p has registered with these services
CandidatesWith(p, services) ==
    Cardinality(getSyncCandidates(
        setPeerState(Cur, p, newPeerSyncState(isSyncCandidate(services)))))

\* what handling NewPeer can end in, over the heights p can announce
NewPeerResults(p, services) ==
    UNION {handleNewPeerMsg([Cur EXCEPT !.height[p] = h], p, services) :
              h \in {x \in ScnHeights : p \in Registered(Cur) => x = height[p]}}

\* the number of sync candidates once p has gone
CandidatesWithout(p) == Cardinality(getSyncCandidates(Cur) \ {p})

\* C5 (as stated): the sync peer is cleared when it departs, and after a
\* Block event that finds the manager current on the success path syncPeer
\* is none.
C5_SyncPeerClearedWhenCurrent ==
    /\ \A r \in handleDonePeerMsg(Cur, syncPeer) :
           syncPeer # NoPeer => r.syncPeer # syncPeer
    /\ \A p \in Peers, blockHash \in Hashes, res \in ScnResults :
           \A r \in handleBlockMsg(Cur, p, blockHash, res) :
               r.path = "current" => r.syncPeer = NoPeer

\* C5 (amended): when the sync peer departs it stops being the sync peer
\* (the selector may choose another registered peer at once); a Block event
\* that finds the manager current on the success path leaves syncPeer as it
\* was.
C5_SyncPeerKeptWhenCurrent ==
    /\ \A r \in handleDonePeerMsg(Cur, syncPeer) :
           syncPeer # NoPeer =>
               /\ r.syncPeer # syncPeer
               /\ r.syncPeer \in Registered(r) \cup {NoPeer}
    /\ \A p \in Peers, blockHash \in Hashes, res \in ScnResults :
           \A r \in handleBlockMsg(Cur, p, blockHash, res) :
               r.path = "current" => r.syncPeer = syncPeer

\* The sync peer delivers the block that makes the manager current, and is
\* still the sync peer afterwards.
C5_Witness ==
    /\ syncPeer # NoPeer
    /\ ~current(Cur)
    /\ \E blockHash \in Hashes, res \in ScnResults :
           \E r \in handleBlockMsg(Cur, syncPeer, blockHash, res) :
               /\ r.path = "current"
               /\ r.syncPeer = syncPeer

\* C6 (as stated): while the sync candidates are fewer than MinPeersForSync
\* no GetBlocks is sent, whatever the event (peer registration, peer
\* dismissal or block intake).
C6_NoGetBlocksBelowMinPeers ==
    /\ \A p \in Peers, services \in ScnServices :
           \A r \in NewPeerResults(p, services) :
               CandidatesWith(p, services) < MinPeersForSync => r.getblocks = <<>>
    /\ \A p \in Peers :
           \A r \in handleDonePeerMsg(Cur, p) :
               CandidatesWithout(p) < MinPeersForSync => r.getblocks = <<>>
    /\ \A p \in Peers, blockHash \in Hashes, res \in ScnResults :
           \A r \in handleBlockMsg(Cur, p, blockHash, res) :
               Cardinality(getSyncCandidates(Cur)) < MinPeersForSync =>
                   r.getblocks = <<>>

\* C6 (amended): while the sync candidates are fewer than MinPeersForSync
\* the sync peer selector selects no peer and sends no GetBlocks, on peer
\* registration and on peer dismissal.
C6_SelectorNeedsMinPeers ==
    /\ \A p \in Peers, services \in ScnServices :
           \A r \in NewPeerResults(p, services) :
               CandidatesWith(p, services) < MinPeersForSync =>
                   /\ r.getblocks = <<>>
                   /\ r.syncPeer = syncPeer
    /\ \A p \in Peers :
           \A r \in handleDonePeerMsg(Cur, p) :
               CandidatesWithout(p) < MinPeersForSync =>
                   /\ r.getblocks = <<>>
                   /\ r.syncPeer \in {syncPeer, NoPeer} \ {p}

\* A sync candidate that is ahead of the chain registers next to a peer that
\* is no candidate, while there is no sync peer; the selector runs and, one
\* candidate being too few, selects nobody.
C6_Witness ==
    \E p \in Peers \ DOMAIN peerStates, services \in ScnServices :
        /\ isSyncCandidate(services)
        /\ syncPeer = NoPeer
        /\ DOMAIN peerStates # {}
        /\ CandidatesWith(p, services) = 1
        /\ MinPeersForSync > 1
        /\ \E r \in NewPeerResults(p, services) :
               /\ p \in Registered(r)
               /\ r.height[p] > r.bestHeight
               /\ r.getblocks = <<>>
               /\ r.syncPeer = NoPeer

\* C7: when a peer sends the same Inv twice in a row, no vector requested
\* with GetData for the first is requested again for the second.
C7_InvTwiceRequestsOnce ==
    \A p \in DOMAIN peerStates, invList \in ScnInvLists :
        \A r1 \in handleInvMsg(Cur, p, invList) :
            \A r2 \in handleInvMsg(Settled(r1), p, invList) :
                Requested(r1) \cap Requested(r2) = {}

\* the vectors a peer's request queue holds
Queued(s, p) ==
    {s.peerStates[p].requestQueue[i] :
        i \in 1..Len(s.peerStates[p].requestQueue)}

\* a getdata message is not empty and asks for filtered blocks and
\* transactions only
GetDataOK(r) ==
    \A j \in 1..Len(r.getdata) :
        /\ Len(r.getdata[j].InvList) >= 1
        /\ \A i \in 1..Len(r.getdata[j].InvList) :
               r.getdata[j].InvList[i].Type \in {InvTypeFilteredBlock, InvTypeTx}

\* C8: every GetData sent has at least one vector and none of kind Block;
\* an advertised Block vector is queued or requested as FilteredBlock, and
\* an advertised vector that is neither Block nor Tx is neither queued nor
\* requested (a FilteredBlock vector only as the rewriting of a Block vector
\* advertised with it).
C8_GetDataVectors ==
    /\ \A p \in DOMAIN peerStates :
           \A iv \in Queued(Cur, p) : iv.Type \in {InvTypeFilteredBlock, InvTypeTx}
    /\ \A p \in Peers, blockHash \in Hashes, res \in ScnResults :
           \A r \in handleBlockMsg(Cur, p, blockHash, res) : GetDataOK(r)
    /\ \A p \in Peers, invList \in ScnInvLists :
           \A r \in handleInvMsg(Cur, p, invList) :
               /\ GetDataOK(r)
               /\ \A i \in 1..Len(invList) :
                      LET iv == invList[i]
                          fb == [iv EXCEPT !.Type = InvTypeFilteredBlock]
                      IN  /\ (/\ r.path = "pump"
                              /\ iv.Type = InvTypeBlock
                              /\ iv.Hash \notin chainBlocks
                              /\ iv.Hash \notin requestedBlocks)
                             => fb \in Requested(r) \cup Queued(r, p)
                          /\ iv.Type = InvTypeBlock => iv \notin Requested(r)
                          /\ (r.path = "pump" /\ iv.Type = InvTypeBlock)
                             => iv \notin Queued(r, p)
                          /\ (/\ r.path = "pump"
                              /\ iv.Type \notin {InvTypeBlock, InvTypeTx}
                              /\ iv \notin Queued(Cur, p)
                              /\ \A k \in 1..Len(invList) :
                                     fb = iv => invList[k].Type # InvTypeBlock
                                                \/ invList[k].Hash # iv.Hash)
                             => iv \notin Requested(r) \cup Queued(r, p)

\* An Inv advertises a block and a vector of an unsupported kind; a GetData
\* goes out that asks for the filtered block and for nothing else.
C8_Witness ==
    \E p \in DOMAIN peerStates, invList \in ScnInvLists :
        /\ \E i \in 1..Len(invList) : invList[i].Type = InvTypeError
        /\ \E i \in 1..Len(invList) : invList[i].Type = InvTypeBlock
        /\ \E r \in handleInvMsg(Cur, p, invList) :
               /\ Len(r.getdata) = 1
               /\ \E i \in 1..Len(invList) :
                      /\ invList[i].Type = InvTypeBlock
                      /\ Requested(r) =
                            {[Type |-> InvTypeFilteredBlock, Hash |-> invList[i].Hash]}

\* the item is dropped and the peer disconnected
DroppedAndDisconnected(r, p) ==
    /\ p \in r.disconnect
    /\ r.commit = "none"
    /\ SameManager(r, Cur)

\* C9 (as stated): a registered peer that delivers a block (transaction)
\* whose hash is not in its requestedBlocks (requestedTxns) is disconnected,
\* the item is not committed and the request sets do not change.
C9_UnrequestedDisconnects ==
    \A p \in DOMAIN peerStates :
        /\ \A blockHash \in Hashes \ peerStates[p].requestedBlocks :
               \A res \in ScnResults :
                   \A r \in handleBlockMsg(Cur, p, blockHash, res) :
                       DroppedAndDisconnected(r, p)
        /\ \A txHash \in ScnTxHashes \ peerStates[p].requestedTxns :
               \A fp \in CommitTxResults :
                   DroppedAndDisconnected(handleTxMsg(Cur, p, txHash, fp), p)

\* C9 (amended): as stated for a transaction, and for a block when the peer
\* is the sync peer or the manager is current; a block that a registered
\* peer other than the sync peer delivers while the manager is not current
\* is dropped with no disconnect, no commit and no change.
C9_UnrequestedDisconnectsUnlessGated ==
    \A p \in DOMAIN peerStates :
        /\ \A blockHash \in Hashes \ peerStates[p].requestedBlocks :
               \A res \in ScnResults :
                   \A r \in handleBlockMsg(Cur, p, blockHash, res) :
                       IF p = syncPeer \/ current(Cur)
                       THEN DroppedAndDisconnected(r, p)
                       ELSE SameManager(r, Cur) /\ NoCalls(r)
        /\ \A txHash \in ScnTxHashes \ peerStates[p].requestedTxns :
               \A fp \in CommitTxResults :
                   DroppedAndDisconnected(handleTxMsg(Cur, p, txHash, fp), p)

\* A registered peer has requests outstanding and the manager is current;
\* a block the peer was not asked for arrives and the peer is disconnected.
C9_Witness ==
    \E p \in DOMAIN peerStates :
        /\ current(Cur)
        /\ peerStates[p].requestedBlocks # {}
        /\ \E blockHash \in Hashes \ peerStates[p].requestedBlocks :
               \E res \in ScnResults :
                   \E r \in handleBlockMsg(Cur, p, blockHash, res) :
                       /\ r.path = "unrequested"
                       /\ p \in r.disconnect

\* C10 (as stated): an Inv, Block, Tx or DonePeer from a peer that has no
\* entry in peerStates changes nothing in the manager and disconnects
\* nobody.
C10_UnknownPeerDropped ==
    \A p \in Peers \ DOMAIN peerStates :
        /\ \A invList \in ScnInvLists :
               \A r \in handleInvMsg(Cur, p, invList) :
                   SameManager(r, Cur) /\ NoCalls(r)
        /\ \A txHash \in ScnTxHashes, fp \in CommitTxResults :
               LET r == handleTxMsg(Cur, p, txHash, fp)
               IN  SameManager(r, Cur) /\ NoCalls(r)
        /\ \A r \in handleDonePeerMsg(Cur, p) :
               SameManager(r, Cur) /\ NoCalls(r)
        /\ \A blockHash \in Hashes, res \in ScnResults :
               \A r \in handleBlockMsg(Cur, p, blockHash, res) :
                   SameManager(r, Cur) /\ NoCalls(r)

\* C10 (amended): an Inv, Tx or DonePeer from a peer that has no entry in
\* peerStates changes nothing and disconnects nobody; a Block from such a
\* peer changes nothing in the manager and is not committed, and the peer
\* is disconnected exactly when the manager is current.
C10_UnknownPeerDroppedBlockDisconnects ==
    \A p \in Peers \ DOMAIN peerStates :
        /\ \A invList \in ScnInvLists :
               \A r \in handleInvMsg(Cur, p, invList) :
                   SameManager(r, Cur) /\ NoCalls(r)
        /\ \A txHash \in ScnTxHashes, fp \in CommitTxResults :
               LET r == handleTxMsg(Cur, p, txHash, fp)
               IN  SameManager(r, Cur) /\ NoCalls(r)
        /\ \A r \in handleDonePeerMsg(Cur, p) :
               SameManager(r, Cur) /\ NoCalls(r)
        /\ \A blockHash \in Hashes, res \in ScnResults :
               \A r \in handleBlockMsg(Cur, p, blockHash, res) :
                   /\ SameManager(r, Cur)
                   /\ NoCalls([r EXCEPT !.disconnect = {}])
                   /\ r.disconnect = IF current(Cur) THEN {p} ELSE {}

\* A peer has left while another stays registered and the manager is
\* current; a block from the peer that left gets it disconnected.
C10_Witness ==
    \E p \in Peers \ DOMAIN peerStates :
        /\ DOMAIN peerStates # {}
        /\ current(Cur)
        /\ \E blockHash \in Hashes, res \in ScnResults :
               \E r \in handleBlockMsg(Cur, p, blockHash, res) :
                   /\ r.path = "unknown"
                   /\ r.disconnect = {p}
                   /\ SameManager(r, Cur)

\* C11: after a Block event whose commit succeeded and reported a new block
\* txMemPool is empty, whether or not there was a reorg and whether or not
\* the manager is current; after a commit that failed or reported a
\* duplicate block txMemPool is what it was.
C11_MempoolClearedOnNewBlock ==
    \A p \in Peers, blockHash \in Hashes, res \in ScnResults :
        \A r \in handleBlockMsg(Cur, p, blockHash, res) :
            r.commit = "block" =>
                IF res.err = NoError /\ res.newBlock
                THEN r.txMemPool = {}
                ELSE r.txMemPool = txMemPool

\* The mempool holds a transaction; the peer delivers a requested block: a
\* new block empties the mempool, a duplicate and a failed commit keep it.
C11_Witness ==
    /\ txMemPool # {}
    /\ \E p \in DOMAIN peerStates, blockHash \in Hashes :
           /\ \E res \in ScnResults :
                  \E r \in handleBlockMsg(Cur, p, blockHash, res) :
                      /\ r.commit = "block"
                      /\ res.newBlock
                      /\ r.txMemPool = {}
           /\ \E res \in ScnResults :
                  \E r \in handleBlockMsg(Cur, p, blockHash, res) :
                      /\ r.commit = "block"
                      /\ res.err = NoError /\ ~res.newBlock
                      /\ r.txMemPool = txMemPool
           /\ \E res \in ScnResults :
                  \E r \in handleBlockMsg(Cur, p, blockHash, res) :
                      /\ r.commit = "block"
                      /\ res.err # NoError
                      /\ r.txMemPool = txMemPool

\* the states in which the sync peer selector runs: at the end of a
\* registration, after the sync peer has been removed (and, for the selector
\* alone, the state as it is)
SelectorRuns ==
    {Cur}
    \cup UNION {{setPeerState([Cur EXCEPT !.height[p] = h, !.path = "registered"],
                               p, newPeerSyncState(isSyncCandidate(services))) :
                    services \in ScnServices,
                    h \in {x \in ScnHeights :
                              p \in DOMAIN peerStates => x = height[p]}} :
                 p \in Peers}
    \cup {[removePeer(Cur, p) EXCEPT !.syncPeer = NoPeer] : p \in DOMAIN peerStates}

\* the candidates of s that are not behind the chain
Available(s) == {q \in getSyncCandidates(s) : s.height[q] >= s.bestHeight}

\* C15: when the selector runs with no sync peer and at least
\* MinPeersForSync candidates, every candidate below the chain's height is
\* no candidate afterwards and the peer chosen is a candidate at or above
\* the chain's height with the greatest height among these; if there is
\* none, syncPeer stays none and no GetBlocks is sent.  When it runs with a
\* sync peer set or with too few candidates it changes nothing.
C15_SelectorPicksHighest ==
    \A s \in SelectorRuns :
        \A r \in startSync(s) :
            IF s.syncPeer # NoPeer
               \/ Cardinality(getSyncCandidates(s)) < MinPeersForSync
            THEN r = s
            ELSE /\ \A q \in getSyncCandidates(s) :
                        s.height[q] < s.bestHeight =>
                            ~r.peerStates[q].syncCandidate
                 /\ r.syncPeer # NoPeer =>
                        /\ r.syncPeer \in Available(s)
                        /\ \A q \in Available(s) :
                               s.height[q] <= s.height[r.syncPeer]
                        /\ r.getblocks = <<r.syncPeer>>
                 /\ Available(s) = {} =>
                        r.syncPeer = NoPeer /\ r.getblocks = <<>>
                 /\ Available(s) # {} => r.syncPeer # NoPeer

\* A second candidate registers ahead of the first: the first is behind the
\* chain and is marked, the newcomer is chosen.
C15_Witness ==
    \E s \in SelectorRuns \ {Cur} :
        /\ s.syncPeer = NoPeer
        /\ Cardinality(getSyncCandidates(s)) >= 2
        /\ Cardinality(getSyncCandidates(s)) >= MinPeersForSync
        /\ \E q \in getSyncCandidates(s) : s.height[q] < s.bestHeight
        /\ \E r \in startSync(s) :
               /\ r.syncPeer \in Available(s)
               /\ \E q \in getSyncCandidates(s) \ getSyncCandidates(r) :
                      s.height[q] < s.height[r.syncPeer]

\* C16: when a registered peer delivers a block it was asked for, the
\* manager is current and the chain reports an orphan, afterwards the peer's
\* request queue and requestedBlocks and the manager's requestedBlocks are
\* empty, one GetBlocks has been sent, to that peer, the peer is the sync
\* peer and its badBlocks is what it was.
C16_OrphanWhileCurrentResyncs ==
    \A p \in DOMAIN peerStates :
        \A blockHash \in peerStates[p].requestedBlocks, res \in ScnResults :
            (res.err = OrphanBlockError /\ current(Cur)) =>
                \A r \in handleBlockMsg(Cur, p, blockHash, res) :
                    /\ r.peerStates[p].requestQueue = <<>>
                    /\ r.peerStates[p].requestedBlocks = {}
                    /\ r.requestedBlocks = {}
                    /\ r.getblocks = <<p>>
                    /\ r.syncPeer = p
                    /\ r.peerStates[p].badBlocks = peerStates[p].badBlocks
                    /\ r.disconnect = {}

\* A peer that is not the sync peer has two blocks outstanding and the
\* manager is current; one of them comes back as an orphan and the peer
\* becomes the sync peer with nothing outstanding.
C16_Witness ==
    \E p \in DOMAIN peerStates :
        /\ syncPeer # p
        /\ current(Cur)
        /\ Cardinality(peerStates[p].requestedBlocks) > 1
        /\ \E blockHash \in peerStates[p].requestedBlocks, res \in ScnResults :
               /\ res.err = OrphanBlockError
               /\ \E r \in handleBlockMsg(Cur, p, blockHash, res) :
                      /\ r.syncPeer = p
                      /\ r.getblocks = <<p>>
                      /\ r.peerStates[p].requestedBlocks = {}

\* every field of the manager, of the chain and of the peers is the same
\* in r and in the state, and nothing was called
DroppedEntirely(r) ==
    /\ SameManager(r, Cur)
    /\ NoCalls(r)
    /\ r.height = height
    /\ r.bestHeight = bestHeight
    /\ r.chainBlocks = chainBlocks
    /\ r.filterTasks = filterTasks

\* C20: while the manager is not current, an Inv or a Block from a
\* registered peer that is not the sync peer changes nothing (request queue,
\* in-flight sets, counters, txMemPool, syncPeer), calls nothing on the chain,
\* sends no GetData and no GetBlocks and does not disconnect the peer.
C20_NotCurrentDropsOthers ==
    \A p \in DOMAIN peerStates :
        (p # syncPeer /\ ~current(Cur)) =>
            /\ \A invList \in ScnInvLists :
                   \A r \in handleInvMsg(Cur, p, invList) : DroppedEntirely(r)
            /\ \A blockHash \in Hashes, res \in ScnResults :
                   \A r \in handleBlockMsg(Cur, p, blockHash, res) :
                       DroppedEntirely(r)

\* The manager is not current and a peer other than the sync peer still has
\* a block outstanding; it delivers that block and advertises a new one, and
\* both are dropped.
C20_Witness ==
    \E p \in DOMAIN peerStates :
        /\ p # syncPeer
        /\ ~current(Cur)
        /\ \E blockHash \in peerStates[p].requestedBlocks, res \in ScnResults :
               \E r \in handleBlockMsg(Cur, p, blockHash, res) :
                   r.path = "gated" /\ DroppedEntirely(r)
        /\ \E invList \in ScnInvLists :
               /\ invWanted(Cur, invList) # <<>>
               /\ \E r \in handleInvMsg(Cur, p, invList) :
                      r.path = "gated" /\ DroppedEntirely(r)

\* C17: when the sync peer delivers a block it was asked for, the manager
\* is not current and the chain reports an orphan, badBlocks grows by one
\* and the peer is disconnected exactly when, after that,
\* badBlocks * 1000 > receivedBlocks; syncPeer, txMemPool and the in-flight
\* sets, but for the hash of the block, are what they were.
C17_BadBlockRate ==
    \A p \in DOMAIN peerStates :
        (p = syncPeer /\ ~current(Cur)) =>
            \A blockHash \in peerStates[p].requestedBlocks, res \in ScnResults :
                res.err = OrphanBlockError =>
                    \A r \in handleBlockMsg(Cur, p, blockHash, res) :
                        LET bad == peerStates[p].badBlocks + 1
                            received == peerStates[p].receivedBlocks + 1
                        IN  /\ r.peerStates[p].badBlocks = bad
                            /\ r.peerStates[p].receivedBlocks = received
                            /\ p \in r.disconnect <=>
                                   bad * InverseMaxRate > received
                            /\ r.syncPeer = syncPeer
                            /\ r.txMemPool = txMemPool
                            /\ r.requestedTxns = requestedTxns
                            /\ r.requestedBlocks = requestedBlocks \ {blockHash}
                            /\ r.peerStates[p].requestedTxns =
                                   peerStates[p].requestedTxns
                            /\ r.peerStates[p].requestedBlocks =
                                   peerStates[p].requestedBlocks \ {blockHash}
                            /\ r.peerStates[p].requestQueue =
                                   peerStates[p].requestQueue

\* The sync peer has delivered a thousand good blocks and the next one is
\* an orphan: one bad block in 1001, and the peer stays.
C17_Witness ==
    \E p \in DOMAIN peerStates :
        /\ p = syncPeer
        /\ ~current(Cur)
        /\ peerStates[p].receivedBlocks = InverseMaxRate
        /\ peerStates[p].badBlocks = 0
        /\ \E blockHash \in peerStates[p].requestedBlocks, res \in ScnResults :
               /\ res.err = OrphanBlockError
               /\ \E r \in handleBlockMsg(Cur, p, blockHash, res) :
                      /\ r.path = "orphanSyncing"
                      /\ r.peerStates[p].badBlocks = 1
                      /\ r.disconnect = {}

\* C18: in every reachable state every registered peer has
\* badBlocks <= receivedBlocks and falsePositives <= receivedTxs
\* (receivedTxs counts every transaction accepted from the peer).
C18_CountersOrdered ==
    \A p \in DOMAIN peerStates :
        /\ peerStates[p].badBlocks <= peerStates[p].receivedBlocks
        /\ peerStates[p].falsePositives <= peerStates[p].receivedTxs

\* r is s but for the two counters of p and the number of pending tasks
OnlyCountersDiffer(r, s, p) ==
    /\ Registered(r) = Registered(s)
    /\ \A q \in Registered(s) :
           [r.peerStates[q] EXCEPT !.receivedTxs = 0, !.falsePositives = 0]
             = [s.peerStates[q] EXCEPT !.receivedTxs = 0, !.falsePositives = 0]
    /\ \A q \in Registered(s) \ {p} : r.peerStates[q] = s.peerStates[q]
    /\ r.requestedTxns = s.requestedTxns
    /\ r.requestedBlocks = s.requestedBlocks
    /\ r.txMemPool = s.txMemPool
    /\ r.syncPeer = s.syncPeer

\* C19: a requested transaction flagged as false positive with the peer's
\* rate above maxFalsePositiveRate queues one filter-load message on the peer
\* and leaves a task waiting; when the task's completion signal fires and
\* the peer is registered its receivedTxs and falsePositives are 0
\* afterwards, when the peer's quit signal fires they are what they were,
\* and the task changes nothing else, however it interleaves with the
\* worker: when the signal fires while the worker handles a false positive
\* of the peer, the counters have been zeroed (falsePositives counts at most
\* that transaction) and nothing else differs from what the worker did.
C19_FilterTaskResetsCounters ==
    \A p \in DOMAIN peerStates :
        /\ \A txHash \in peerStates[p].requestedTxns :
               LET r == handleTxMsg(Cur, p, txHash, TRUE)
               IN  falsePosRateExceeds(r.peerStates[p]) =>
                       /\ r.filterload = <<p>>
                       /\ r.filterTasks[p] = filterTasks[p] + 1
        /\ filterTasks[p] > 0 =>
               /\ LET r == filterLoaded(Cur, p)
                  IN  /\ r.peerStates[p].receivedTxs = 0
                      /\ r.peerStates[p].falsePositives = 0
                      /\ OnlyCountersDiffer(r, Cur, p)
               /\ LET r == filterQuit(Cur, p)
                  IN  SameManager(r, Cur)
               /\ \A txHash \in peerStates[p].requestedTxns :
                      \A r \in txRacingFilterLoaded(Cur, p, txHash) :
                          /\ r.peerStates[p].receivedTxs = 0
                          /\ r.peerStates[p].falsePositives <= 1
                          /\ OnlyCountersDiffer(
                                 r, handleTxMsg(Cur, p, txHash, TRUE), p)

\* ---------------------------------------------------------------- C13
\* C13: a call of NewPeer, DonePeer, QueueInv, QueueTx or QueueBlock that
\* loads a set shutdown flag puts nothing on msgChan, neither in that step
\* nor later, and leaves the manager's state and the flag as they are;
\* QueueTx and QueueBlock have signalled done once when they return.
C13_ShutdownSubmitterNoOp ==
    [][\A c \in Submitters :
         /\ (submitter[c].pc = "idle" /\ shutdown # 0 /\ submitter'[c] # submitter[c]) =>
               /\ submitter'[c].pc = "refused"
               /\ msgChan' = msgChan
               /\ UNCHANGED manager
               /\ shutdown' = shutdown
               /\ replies'[c] = replies[c] + (IF HasReply(submitter'[c].kind) THEN 1 ELSE 0)
         /\ submitter[c].pc = "refused" =>
               /\ submitter'[c] = submitter[c]
               /\ replies'[c] = replies[c]
               /\ \A i \in 1..Len(msgChan') : msgChan'[i].sub # c]_vars

\* QueueTx or QueueBlock, and a call without a done channel, have returned
\* on a set flag.
C13_Witness ==
    \E c, d \in Submitters :
        /\ submitter[c].pc = "refused"
        /\ HasReply(submitter[c].kind)
        /\ replies[c] = 1
        /\ submitter[d].pc = "refused"
        /\ ~HasReply(submitter[d].kind)
        /\ replies[d] = 0
        /\ c \notin handled /\ d \notin handled

\* ---------------------------------------------------------------- C14
\* C14 as stated: whenever a call of Stop has returned, blockHandler is not
\* running, for every caller; and at most one blockHandler was launched.
C14_EveryStopReturnsAfterLoop ==
    /\ \A c \in Stoppers :
          stopper[c].pc \in {"returned", "skipped"} => worker # "select"
    /\ loops <= 1

\* C14, amended: the call of Stop that set the shutdown flag, made after the
\* call of Start that launched blockHandler had returned, returns only after
\* blockHandler has exited; at most one call of Stop closes quit and waits,
\* every other one returns without waiting; at most one blockHandler is
\* launched, by at most one call of Start.
C14_FirstStopReturnsAfterLoop ==
    /\ \A c \in Stoppers :
          (stopper[c].pc = "returned" /\ stopper[c].afterStart) => worker = "done"
    /\ Cardinality({c \in Stoppers : stopper[c].pc \in {"close", "wait", "returned"}}) <= 1
    /\ \A c \in Stoppers : stopper[c].pc = "skipped" => shutdown > 1
    /\ loops <= 1
    /\ Cardinality({c \in Starters : starter[c] \in {"add", "go", "returned"}}) <= 1

\* Start and Stop were both called twice; the Stop that waited has returned.
C14_Witness ==
    \E c, d \in Stoppers, e, f \in Starters :
        /\ stopper[c].pc = "returned"
        /\ stopper[c].afterStart
        /\ stopper[d].pc = "skipped"
        /\ starter[e] = "returned"
        /\ starter[f] = "skipped"
        /\ worker = "done"
        /\ loops = 1

\* ---------------------------------------------------------------- C12
\* C12: the done channel of a call of QueueTx or QueueBlock is signalled at
\* most once, only once blockHandler has handled the message or the call
\* has refused it, and, when the call has returned and blockHandler has
\* exited (so that nobody is left to signal it), it has been signalled.
C12_ReplyExactlyOnce ==
    \A c \in Submitters :
        /\ replies[c] <= 1
        /\ replies[c] = 1 =>
              /\ HasReply(submitter[c].kind)
              /\ c \in handled \/ submitter[c].pc = "refused"
        /\ (/\ HasReply(submitter[c].kind)
            /\ submitter[c].pc = "returned"
            /\ worker = "done") => replies[c] = 1

\* ---------------------------------------------------------------- C21
\* The pump runs for one advertised vector iv of a hash that is neither in
\* flight nor in the inventory, at a peer whose request queue is empty.
PumpsOne(p, iv) ==
    /\ p \in DOMAIN peerStates
    /\ peerStates[p].requestQueue = <<>>
    /\ ~ignoreInv(Cur, p)
    /\ ~haveInventory(Cur, invRewrite(iv))

\* C21: when the pump requests a hash that is new to the global set, the
\* hash is in the global set when the pump has finished; if the set was at
\* its limit before, exactly one of its former entries is gone, and if it
\* was below its limit none is.
C21_EvictsOnlyAtLimit ==
    /\ \A p \in Peers, h \in ScnTxHashes :
         LET iv == [Type |-> InvTypeTx, Hash |-> h]
         IN  (PumpsOne(p, iv) /\ h \notin requestedTxns) =>
               \A r \in handleInvMsg(Cur, p, <<iv>>) :
                   /\ h \in r.requestedTxns
                   /\ Cardinality(requestedTxns) < maxRequestedTxns =>
                         requestedTxns \subseteq r.requestedTxns
                   /\ Cardinality(requestedTxns) = maxRequestedTxns =>
                         Cardinality(requestedTxns \ r.requestedTxns) = 1
    /\ \A p \in Peers, h \in Hashes :
         LET iv == [Type |-> InvTypeBlock, Hash |-> h]
         IN  (PumpsOne(p, iv) /\ h \notin requestedBlocks) =>
               \A r \in handleInvMsg(Cur, p, <<iv>>) :
                   /\ h \in r.requestedBlocks
                   /\ Cardinality(requestedBlocks) < maxRequestedBlocks =>
                         requestedBlocks \subseteq r.requestedBlocks
                   /\ Cardinality(requestedBlocks) = maxRequestedBlocks =>
                         Cardinality(requestedBlocks \ r.requestedBlocks) = 1

\* ---------------------------------------------------------------- C22
\* C22: in every reachable state the sync peer, if there is one, has an
\* entry in peerStates; and handling DonePeer of the sync peer leaves either
\* no sync peer or another, registered one.
C22_SyncPeerRegistered ==
    /\ syncPeer # NoPeer => syncPeer \in DOMAIN peerStates
    /\ syncPeer # NoPeer =>
          \A r \in handleDonePeerMsg(Cur, syncPeer) :
              /\ syncPeer \notin Registered(r)
              /\ r.syncPeer # syncPeer
              /\ r.syncPeer # NoPeer => r.syncPeer \in Registered(r)

\* The sync peer can leave and have a registered successor.
C22_Witness ==
    /\ syncPeer # NoPeer
    /\ syncPeer \in DOMAIN peerStates
    /\ \E r \in handleDonePeerMsg(Cur, syncPeer) :
          /\ r.syncPeer \notin {NoPeer, syncPeer}
          /\ r.syncPeer \in Registered(r)

\* ---------------------------------------------------------------- C23
\* C23: a call of SyncPeerID or IsCurrent returns a value (a peer's ID or 0;
\* a boolean) and never waits for ever: once blockHandler has exited, which
\* leaves nobody to receive from msgChan or to send a reply, no such call is
\* waiting on its reply channel or on a full msgChan.
C23_QueryReturns ==
    \A c \in Queriers :
        /\ worker = "done" =>
              /\ querier[c].pc # "await"
              /\ ~(querier[c].pc = "send" /\ Len(msgChan) = QueueCap)
        /\ querier[c].pc = "returned" =>
              IF querier[c].kind = "getSyncPeerMsg"
              THEN querier[c].value \in Peers \cup {0}
              ELSE querier[c].value \in BOOLEAN

====
